---------------------------- MODULE Spec2Model ----------------------------
(***************************************************************************)
(* Shareholder Tracker: the investment search endpoint (POST               *)
(* /api/investments) and the search page controller (Home) that drives it. *)
(*                                                                         *)
(* Text values are sequences of one-character strings, so that ILIKE,      *)
(* to_tsquery and ORDER BY can be computed rather than assumed.  JavaScript*)
(* null is NULL, JavaScript undefined is UNDEFINED.                        *)
(***************************************************************************)
EXTENDS Integers, Sequences, FiniteSets, TLC

(***************************************************************************)
(* Bounds of the model.                                                    *)
(***************************************************************************)
\* largest page size a request carries (the page-size choices are 1..MaxLimit)
MaxLimit == 3
\* largest 1-based page number a request to the handler carries
MaxPage == 3
\* search requests the page controller may issue in one run
MaxRequests == 3
\* text changes the user may make in one run
MaxTyping == 2
\* filters a request to the handler sets at once
MaxFilters == 2
\* largest total the page count is computed for, beyond the view's totals
MaxTotal == 7

NULL == "null"
UNDEFINED == "undefined"
\* undefined held where a number is expected (TLC compares numbers only
\* with numbers)
UndefinedTotal == -1

(***************************************************************************)
(* Text                                                                    *)
(***************************************************************************)
\* code point of a character (ORDER BY compares text by code point here)
Ord(c) ==
    CASE c = " " -> 32
      [] c = "1" -> 49
      [] c = "2" -> 50
      [] c = "3" -> 51
      [] c = "4" -> 52
      [] c = "5" -> 53
      [] c = "A" -> 65
      [] c = "B" -> 66
      [] c = "a" -> 97
      [] c = "b" -> 98
      [] c = "c" -> 99
      [] c = "l" -> 108
      [] c = "n" -> 110
      [] c = "u" -> 117
      [] OTHER -> 0

\* ILIKE folds case
Lower(c) == CASE c = "A" -> "a" [] c = "B" -> "b" [] OTHER -> c

ToLower(s) == [i \in 1..Len(s) |-> Lower(s[i])]

\* needle occurs in hay as a contiguous run
Contains(hay, needle) ==
    \E i \in 0..(Len(hay) - Len(needle)) :
        \A j \in 1..Len(needle) : hay[i + j] = needle[j]

\* strict lexicographic order of two texts by code point
TextLess(s, t) ==
    \E i \in 1..(Len(t)) :
        /\ \A j \in 1..(i - 1) : j <= Len(s) /\ s[j] = t[j]
        /\ \/ i = Len(s) + 1
           \/ i <= Len(s) /\ Ord(s[i]) < Ord(t[i])

\* JavaScript string concatenation turns null into the text "null"
JsStr(v) == IF v = NULL THEN <<"n", "u", "l", "l">> ELSE v

\* JavaScript truthiness of a string-or-null filter value
Truthy(v) == v # NULL /\ v # <<>>

\* the whitespace-separated tokens of a text, in order
RECURSIVE Tokens(_)
Tokens(s) ==
    IF s = <<>> THEN <<>>
    ELSE IF Head(s) = " " THEN Tokens(Tail(s))
    ELSE LET n == CHOOSE k \in 1..Len(s) :
                      /\ \A j \in 1..k : s[j] # " "
                      /\ (k = Len(s) \/ s[k + 1] = " ")
         IN <<SubSeq(s, 1, n)>> \o Tokens(SubSeq(s, n + 1, Len(s)))

(***************************************************************************)
(* The current_investments view                                            *)
(***************************************************************************)
Row(id, cik, name, former, issuer, cusip, ticker, filed, doc) ==
    [stock_id |-> id, investor_cik |-> cik, investor_name |-> name,
     investor_former_names |-> former, stock_issuer |-> issuer,
     stock_cusip |-> cusip, stock_ticker |-> ticker,
     form_filing_date |-> filed, document |-> doc]

Row1 == Row(<<"1">>, <<"1">>, <<"A", "b">>, <<>>, <<"a", "c">>, <<"1", "a">>,
            <<"a">>, <<"2">>, {<<"a">>, <<"a", "c">>, <<"a", "b">>})
Row2 == Row(<<"2">>, <<"1">>, <<"A", "b">>, <<"n", "u", "l", "l">>, <<"b">>,
            <<"2", "b">>, NULL, <<"1">>, {<<"b">>, <<"a", "b">>})
Row3 == Row(<<"3">>, <<"2">>, <<"b", "a">>, <<>>, <<"a", "c">>, <<"1", "a">>,
            <<"a">>, <<"3">>, {<<"a">>, <<"a", "c">>, <<"b", "a">>})
Row4 == Row(<<"4">>, <<"2">>, <<"b", "a">>, <<>>, <<"B", "a">>, <<"3", "a">>,
            <<"b">>, <<"1">>, {<<"b">>, <<"b", "a">>})
Row5 == Row(<<"5">>, <<"3">>, <<"c">>, <<"a">>, <<"a", "c">>, <<"1", "a">>,
            <<"a">>, <<"2">>, {<<"a">>, <<"a", "c">>, <<"c">>})

\* the contents the externally refreshed view takes in the model
Views == {{}, {Row1, Row2}, {Row1, Row2, Row3, Row4, Row5}}

ViewColumns ==
    {"stock_id", "investor_cik", "investor_name", "investor_former_names",
     "stock_issuer", "stock_cusip", "stock_ticker", "form_filing_date"}

\* the columns the page offers for sorting
SortColumns ==
    {"stock_issuer", "stock_ticker", "stock_cusip", "investor_name",
     "form_filing_date"}

\* the sortColumn values the model sends: offered columns, a column of the
\* view the page does not offer, and text that is no column at all
SortColumnInputs ==
    {"investor_name", "stock_ticker", "stock_id", "1=1;DROP TABLE x"}

(***************************************************************************)
(* State                                                                   *)
(***************************************************************************)
VARIABLES
    \* the datastore: contents of the current_investments view
    view,
    \* POST handler: where it is, its locals, its response, queries it sent
    hpc, searchParams, searchResults, payload, queriesSent,
    \* Home: the React state of the search page
    investmentsLoading, investments, currentPage, totalRecords, searchTerm,
    sortObj, recordsPerPage, isNewSearch,
    \* search requests issued so far, the request object the effect built
    \* last, and the requests whose promise is pending
    issued, lastRequest, inflight,
    \* the request whose response the displayed rows and total came from
    shown,
    \* debounce timers pending, text changes made so far
    timers, typed,
    \* the value the last then-callback received, the requests whose promise
    \* rejected, and whether a render of Home has thrown
    results, rejections, crashed

serverVars == <<view, hpc, searchParams, searchResults, payload, queriesSent>>

clientVars ==
    <<investmentsLoading, investments, currentPage, totalRecords, searchTerm,
      sortObj, recordsPerPage, isNewSearch, issued, lastRequest, inflight,
      shown, timers, typed, results, rejections, crashed>>

vars == <<serverVars, clientVars>>

(***************************************************************************)
(* POST /api/investments                                                   *)
(***************************************************************************)
\* the sortDirection values the model sends: the two the table produces, SQL
\* text in their place, and none at all
SortDirectionInputs ==
    {"ascending", "descending", "ASC; DROP TABLE x", UNDEFINED}

\* the request bodies the model sends to the handler (InvestmentSearchRequest)
RequestShapes ==
    [cik : {NULL, <<"1">>},
     cusip : {NULL, <<"a">>},
     ticker : {NULL, <<"A">>},
     issuer : {NULL, <<"a">>},
     investor : {NULL, <<"b">>},
     document : {NULL, <<>>, <<"a">>, <<" ", "a", " ", " ", "b", " ">>},
     limit : 1..MaxLimit,
     page : 1..MaxPage,
     sortColumn : SortColumnInputs,
     sortDirection : SortDirectionInputs]

FilterNames == {"cik", "cusip", "ticker", "issuer", "investor", "document"}

Requests ==
    {p \in RequestShapes :
        Cardinality({f \in FilterNames : p[f] # NULL}) <= MaxFilters}

NoRequest == [sortColumn |-> NULL]
NoPayload == [status |-> 0]
\* an exception escaping the handler: the framework answers 500
ServerError == [status |-> 500, error |-> "Internal Server Error"]

\* let offset = searchParams.limit * searchParams.page
Offset(p) == p.limit * p.page

\* a handler that leaves the document phrase out of hasFilters
HasFiltersWithoutDocument(p) ==
    \/ Truthy(p.cik)
    \/ Truthy(p.ticker)
    \/ Truthy(p.cusip)
    \/ Truthy(p.investor)
    \/ Truthy(p.issuer)

HasFilters(p) ==
    \/ Truthy(p.cik)
    \/ Truthy(p.ticker)
    \/ Truthy(p.cusip)
    \/ Truthy(p.investor)
    \/ Truthy(p.issuer)
    \/ Truthy(p.document)

\* column ILIKE '%' + value + '%'; a NULL column matches nothing
ILike(column, value) ==
    /\ column # NULL
    /\ Contains(ToLower(column), ToLower(JsStr(value)))

\* document @@ to_tsquery(phrase), for a phrase of at most one token
TsMatch(document, phrase) ==
    /\ Len(Tokens(phrase)) = 1
    /\ ToLower(Tokens(phrase)[1]) \in document

\* the WHERE clause of the row query
Where(row, p) ==
    /\ Truthy(p.cik) => ILike(row.investor_cik, p.cik)
    /\ Truthy(p.ticker) => ILike(row.stock_ticker, p.ticker)
    /\ Truthy(p.cusip) => ILike(row.stock_cusip, p.cusip)
    /\ Truthy(p.investor) =>
           ILike(row.investor_name \o <<" ">> \o row.investor_former_names,
                 p.cusip)
    /\ Truthy(p.issuer) => ILike(row.stock_issuer, p.issuer)
    /\ Truthy(p.document) => TsMatch(row.document, p.document)

\* the datastore rejects the statement: ORDER BY text that names no column of
\* the view, or a phrase to_tsquery cannot parse (two tokens, no operator)
QueryFails(p) ==
    \/ p.sortColumn \notin ViewColumns
    \/ Truthy(p.document) /\ Len(Tokens(p.document)) > 1

\* a handler that ignores the requested direction
SortDirectionIgnored(p) == "DESC"

\* a handler that passes on a direction it does not know
SortDirectionVerbatim(p) ==
    IF p.sortDirection = "ascending" THEN "ASC"
    ELSE IF p.sortDirection = "descending" THEN "DESC"
    ELSE p.sortDirection

\* sortDirection == "ascending" ? "ASC" : "DESC"
SortDirection(p) == IF p.sortDirection = "ascending" THEN "ASC" ELSE "DESC"

\* a may stand before b under ORDER BY col ASC (NULLs last)
KeyLeq(a, b) == b = NULL \/ (a # NULL /\ (a = b \/ TextLess(a, b)))

MayPrecede(r, s, col, dir) ==
    IF dir = "ASC" THEN KeyLeq(r[col], s[col]) ELSE KeyLeq(s[col], r[col])

\* every order ORDER BY col dir may return the rows in (ties in any order)
RECURSIVE OrderBy(_, _, _)
OrderBy(rows, col, dir) ==
    IF rows = {} THEN {<<>>}
    ELSE UNION {{<<r>> \o t : t \in OrderBy(rows \ {r}, col, dir)} :
                r \in {m \in rows :
                           \A s \in rows : MayPrecede(m, s, col, dir)}}

Min(a, b) == IF a <= b THEN a ELSE b

\* LIMIT limit OFFSET offset
LimitOffset(rows, limit, offset) ==
    IF offset >= Len(rows) THEN <<>>
    ELSE SubSeq(rows, offset + 1, Min(Len(rows), offset + limit))

\* a slice that takes the element at end too
SliceInclusiveEnd(arr, start, end) ==
    IF start >= Len(arr) THEN <<>>
    ELSE SubSeq(arr, start + 1, Min(Len(arr), end + 1))

\* Array.prototype.slice(start, end) for 0 <= start <= end
Slice(arr, start, end) ==
    IF start >= Len(arr) THEN <<>>
    ELSE SubSeq(arr, start + 1, Min(Len(arr), end))

\* what $queryRaw may return: the statement of lines 45-77 run on v
RowQuery(v, p) ==
    LET sorted == OrderBy({r \in v : Where(r, p)}, p.sortColumn,
                          SortDirection(p))
    IN IF HasFilters(p) THEN sorted
       ELSE {LimitOffset(s, p.limit, Offset(p)) : s \in sorted}

\* prisma.current_investments.count()
Count(v) == Cardinality(v)

\* the filtered branch of lines 85-88 and the payload
FilteredPayload(p, rows) ==
    [status |-> 200,
     data |-> Slice(rows, Offset(p), Offset(p) + p.limit),
     total |-> Len(rows)]

\* a handler that reports the length of the page as the total
UnfilteredPayloadPageTotal(rows, count) ==
    [status |-> 200, data |-> rows, total |-> Len(rows)]

\* the unfiltered branch of lines 82-84 and the payload
UnfilteredPayload(rows, count) ==
    [status |-> 200, data |-> rows, total |-> count]

\* request.json(): a request arrives
Receive(req) ==
    /\ hpc = "idle"
    /\ hpc' = "query"
    /\ searchParams' = req
    /\ searchResults' = <<>>
    /\ payload' = NoPayload
    /\ queriesSent' = 0
    /\ UNCHANGED view

\* await prismaHelper.$queryRaw, then lines 79-95 up to the next await
RunQuery ==
    /\ hpc = "query"
    /\ queriesSent' = queriesSent + 1
    /\ IF QueryFails(searchParams)
       THEN /\ payload' = ServerError
            /\ hpc' = "done"
            /\ UNCHANGED searchResults
       ELSE \E rows \in RowQuery(view, searchParams) :
              /\ searchResults' = rows
              /\ IF HasFilters(searchParams)
                 THEN /\ payload' = FilteredPayload(searchParams, rows)
                      /\ hpc' = "done"
                 ELSE /\ hpc' = "count"
                      /\ UNCHANGED payload
    /\ UNCHANGED <<view, searchParams>>

\* await prisma.current_investments.count(), then lines 84-95
CountQuery ==
    /\ hpc = "count"
    /\ queriesSent' = queriesSent + 1
    /\ payload' = UnfilteredPayload(searchResults, Count(view))
    /\ hpc' = "done"
    /\ UNCHANGED <<view, searchParams, searchResults>>

\* return NextResponse.json(payload): the response leaves, the call ends
Respond ==
    /\ hpc = "done"
    /\ hpc' = "idle"
    /\ searchParams' = NoRequest
    /\ searchResults' = <<>>
    /\ payload' = NoPayload
    /\ queriesSent' = 0
    /\ UNCHANGED view

\* the external process refreshes the view
RefreshView ==
    /\ \E v \in Views \ {view} : view' = v
    /\ UNCHANGED <<hpc, searchParams, searchResults, payload, queriesSent>>

HandlerIdle ==
    /\ hpc = "idle"
    /\ searchParams = NoRequest
    /\ searchResults = <<>>
    /\ payload = NoPayload
    /\ queriesSent = 0

(***************************************************************************)
(* The services: post (services/http.js) and investmentService.search      *)
(***************************************************************************)
\* what fetch may do: the handler serves the request; the server side fails
\* with a non-2xx status; the network fails and fetch rejects
FetchOutcomes == {"served", "failed", "unreachable"}

\* the handler's possible answers to request p over view v, its reads done
\* without a refresh in between
HandlerAnswers(v, p) ==
    IF QueryFails(p) THEN {ServerError}
    ELSE {IF HasFilters(p) THEN FilteredPayload(p, rows)
          ELSE UnfilteredPayload(rows, Count(v)) : rows \in RowQuery(v, p)}

\* the responses fetch may resolve to for request p
Responses(v, p, outcome) ==
    IF outcome = "served" THEN HandlerAnswers(v, p) ELSE {ServerError}

ErrMsg == "Failed to search investments."

\* post: how the promise settles, given what fetch did and the response
Post(outcome, response) ==
    IF outcome = "unreachable" THEN [settled |-> "rejected"]
    ELSE IF response.status # 200
         THEN [settled |-> "resolved", value |-> [error |-> ErrMsg]]
         ELSE [settled |-> "resolved",
               value |-> [data |-> response.data, total |-> response.total]]

\* obj[key] in JavaScript: undefined for a missing key
Field(obj, key) ==
    IF key \in DOMAIN obj THEN obj[key]
    ELSE IF key = "total" THEN UndefinedTotal ELSE UNDEFINED

(***************************************************************************)
(* Home, the search page                                                   *)
(***************************************************************************)
\* NEXT_PUBLIC_DEFAULT_TABLE_ROWS, set to one of the offered page sizes
DefaultTableRows == 2

\* the "Rows per page" choices (10, 25, 50 in the page), scaled to the view
PageSizeOptions == 1..MaxLimit

\* the texts the user types into the search box
SearchTexts == {<<>>, <<"a">>, <<"a", " ", "b">>}

\* what the table may hand to onSortChange
SortDescriptors ==
    [column : {"investor_name", "stock_ticker"},
     direction : {"ascending", "descending"}]

\* the view the page's requests are served from
ClientView == {Row1, Row2, Row3, Row4, Row5}

\* the most pages the pagination control can offer
MaxPages == Cardinality(ClientView)

NoResults == [none |-> TRUE]

HomeInitial ==
    /\ investmentsLoading = TRUE
    /\ investments = <<>>
    /\ currentPage = 1
    /\ totalRecords = 0
    /\ searchTerm = <<>>
    /\ sortObj = [column |-> "investor_name", direction |-> "ascending"]
    /\ recordsPerPage = DefaultTableRows
    /\ isNewSearch = FALSE
    /\ issued = 0
    /\ lastRequest = NoRequest
    /\ inflight = {}
    /\ shown = 0
    /\ timers = 0
    /\ typed = 0
    /\ results = NoResults
    /\ rejections = {}
    /\ crashed = FALSE

\* a page count that rounds down
TotalPagesFloor(total, perPage) ==
    IF total = UndefinedTotal \/ total = 0 THEN 0 ELSE total \div perPage

\* totalRecords ? Math.ceil(totalRecords / recordsPerPage) : 0
TotalPagesOf(total, perPage) ==
    IF total = UndefinedTotal \/ total = 0 THEN 0
    ELSE (total + perPage - 1) \div perPage

TotalPages == TotalPagesOf(totalRecords, recordsPerPage)

\* an effect that sends the page number zero-based
SearchRequestZeroBased(term, limit, page, sort) ==
    [cik |-> NULL, cusip |-> NULL, ticker |-> NULL, issuer |-> NULL,
     investor |-> NULL, document |-> term, limit |-> limit, page |-> page - 1,
     sortColumn |-> sort.column, sortDirection |-> sort.direction]

\* the request object the effect builds from the state it runs in
SearchRequest(term, limit, page, sort) ==
    [cik |-> NULL, cusip |-> NULL, ticker |-> NULL, issuer |-> NULL,
     investor |-> NULL, document |-> term, limit |-> limit, page |-> page,
     sortColumn |-> sort.column, sortDirection |-> sort.direction]

\* the effect of lines 145-166, run in the state an update leaves: the
\* spinner is set and one request is issued; pending are the requests still
\* in flight
Effect(pending, term, limit, page, sort) ==
    /\ issued < MaxRequests
    /\ investmentsLoading' = TRUE
    /\ issued' = issued + 1
    /\ lastRequest' = SearchRequest(term, limit, page, sort)
    /\ inflight' = pending \cup {[id |-> issued + 1, request |-> lastRequest']}

\* no dependency of the effect changed
NoEffect(pending, loading) ==
    /\ investmentsLoading' = loading
    /\ issued' = issued
    /\ lastRequest' = lastRequest
    /\ inflight' = pending

\* the render of lines 221-235 and 253-303 reads totalRecords.toLocaleString()
\* and investments.length once the spinner is off
RenderThrows(loading, total, rows) ==
    ~loading /\ (total = UndefinedTotal \/ rows = UNDEFINED)

\* the table, the page-size select and the pagination are on screen
TableShown == issued > 0 /\ ~crashed /\ ~investmentsLoading

\* first render: the effect runs once
Mount ==
    /\ issued = 0
    /\ Effect({}, searchTerm, recordsPerPage, currentPage, sortObj)
    /\ UNCHANGED <<serverVars, investments, currentPage, totalRecords,
                   searchTerm, sortObj, recordsPerPage, isNewSearch, shown,
                   timers, typed, results, rejections, crashed>>

\* onSearchChange, in a batch that leaves the search text as term
OnSearchChange(term) ==
    /\ currentPage' = 1
    /\ isNewSearch' = TRUE
    /\ IF currentPage # 1 \/ ~isNewSearch
       THEN Effect(inflight, term, recordsPerPage, 1, sortObj)
       ELSE NoEffect(inflight, investmentsLoading)

\* Input onValueChange: the text is stored and a timer of 1500 ms is started
TypeText(val) ==
    /\ issued > 0 /\ ~crashed
    /\ typed < MaxTyping
    /\ val # searchTerm
    /\ searchTerm' = val
    /\ timers' = timers + 1
    /\ typed' = typed + 1
    /\ UNCHANGED <<serverVars, investmentsLoading, investments, currentPage,
                   totalRecords, sortObj, recordsPerPage, isNewSearch, issued,
                   lastRequest, inflight, shown, results, rejections,
                   crashed>>

\* the clear button: the input empties its value (onValueChange("")) and
\* calls onClear, in one batch
ClearInput ==
    /\ issued > 0 /\ ~crashed
    /\ typed < MaxTyping
    /\ searchTerm # <<>>
    /\ searchTerm' = <<>>
    /\ timers' = timers + 1
    /\ typed' = typed + 1
    /\ OnSearchChange(<<>>)
    /\ UNCHANGED <<serverVars, investments, totalRecords, sortObj,
                   recordsPerPage, shown, results, rejections, crashed>>

\* a debounce timer expires and calls onSearchChange
TimerFires ==
    /\ timers > 0
    /\ timers' = timers - 1
    /\ IF crashed
       THEN UNCHANGED <<currentPage, isNewSearch, investmentsLoading, issued,
                        lastRequest, inflight>>
       ELSE OnSearchChange(searchTerm)
    /\ UNCHANGED <<serverVars, investments, totalRecords, searchTerm, sortObj,
                   recordsPerPage, shown, typed, results, rejections, crashed>>

\* Pagination onChange
ChangePage(page) ==
    /\ TableShown
    /\ investments # UNDEFINED /\ Len(investments) > 0
    /\ page \in 1..TotalPages
    /\ page # currentPage
    /\ currentPage' = page
    /\ Effect(inflight, searchTerm, recordsPerPage, page, sortObj)
    /\ UNCHANGED <<serverVars, investments, totalRecords, searchTerm, sortObj,
                   recordsPerPage, isNewSearch, shown, timers, typed, results,
                   rejections, crashed>>

\* a select onChange that keeps the page
ChangePageSizeKeepPage(size) ==
    /\ TableShown
    /\ size # recordsPerPage
    /\ recordsPerPage' = size
    /\ Effect(inflight, searchTerm, size, currentPage, sortObj)
    /\ UNCHANGED <<serverVars, investments, currentPage, totalRecords,
                   searchTerm, sortObj, isNewSearch, shown, timers, typed,
                   results, rejections, crashed>>

\* a table onSortChange that goes back to the first page
ChangeSortFirstPage(item) ==
    /\ TableShown
    /\ item # sortObj
    /\ sortObj' = item
    /\ currentPage' = 1
    /\ Effect(inflight, searchTerm, recordsPerPage, 1, item)
    /\ UNCHANGED <<serverVars, investments, totalRecords, searchTerm,
                   recordsPerPage, isNewSearch, shown, timers, typed, results,
                   rejections, crashed>>

\* Table onSortChange
ChangeSort(item) ==
    /\ TableShown
    /\ item # sortObj
    /\ sortObj' = item
    /\ Effect(inflight, searchTerm, recordsPerPage, currentPage, item)
    /\ UNCHANGED <<serverVars, investments, currentPage, totalRecords,
                   searchTerm, recordsPerPage, isNewSearch, shown, timers,
                   typed, results, rejections, crashed>>

\* select onChange
ChangePageSize(size) ==
    /\ TableShown
    /\ size # recordsPerPage
    /\ recordsPerPage' = size
    /\ currentPage' = 1
    /\ Effect(inflight, searchTerm, size, 1, sortObj)
    /\ UNCHANGED <<serverVars, investments, totalRecords, searchTerm, sortObj,
                   isNewSearch, shown, timers, typed, results, rejections,
                   crashed>>

\* the then-callback of lines 160-165 with its render and its effect
Then(value, pending, id) ==
    /\ results' = value
    /\ shown' = id
    /\ totalRecords' = Field(value, "total")
    /\ investments' = Field(value, "data")
    /\ isNewSearch' = FALSE
    /\ IF RenderThrows(FALSE, totalRecords', investments')
       THEN /\ crashed' = TRUE
            /\ NoEffect(pending, FALSE)
       ELSE /\ crashed' = FALSE
            /\ IF isNewSearch
               THEN Effect(pending, searchTerm, recordsPerPage, currentPage,
                           sortObj)
               ELSE NoEffect(pending, FALSE)
    /\ UNCHANGED <<currentPage, searchTerm, sortObj, recordsPerPage, timers,
                   typed, rejections>>

\* the promise of investmentService.search(request) settles
Settle(r, outcome) ==
    \E response \in Responses(view, r.request, outcome) :
        LET p == Post(outcome, response)
            pending == inflight \ {r}
        IN /\ IF p.settled = "rejected"
              THEN /\ rejections' = rejections \cup {r.id}
                   /\ inflight' = pending
                   /\ UNCHANGED <<investmentsLoading, investments,
                                  currentPage, totalRecords, searchTerm,
                                  sortObj, recordsPerPage, isNewSearch, issued,
                                  lastRequest, shown, timers, typed, results,
                                  crashed>>
              ELSE IF crashed
              THEN /\ results' = p.value
                   /\ inflight' = pending
                   /\ UNCHANGED <<investmentsLoading, investments,
                                  currentPage, totalRecords, searchTerm,
                                  sortObj, recordsPerPage, isNewSearch, issued,
                                  lastRequest, shown, timers, typed,
                                  rejections, crashed>>
              ELSE Then(p.value, pending, r.id)
           /\ UNCHANGED serverVars

(***************************************************************************)
(* Specifications                                                          *)
(***************************************************************************)
\* the handler, serving requests one after another while the view is
\* refreshed under it
InitServer ==
    /\ view \in Views
    /\ HandlerIdle
    /\ HomeInitial

NextServer ==
    \/ /\ hpc = "idle"
       /\ \E req \in Requests : Receive(req) /\ UNCHANGED clientVars
    \/ RunQuery /\ UNCHANGED clientVars
    \/ CountQuery /\ UNCHANGED clientVars
    \/ Respond /\ UNCHANGED clientVars
    \/ RefreshView /\ UNCHANGED clientVars

SpecServer == InitServer /\ [][NextServer]_vars

\* the search page against a handler that answers from a fixed view
InitClient ==
    /\ view = ClientView
    /\ HandlerIdle
    /\ HomeInitial

NextClient ==
    \/ Mount
    \/ \E val \in SearchTexts : TypeText(val)
    \/ ClearInput
    \/ TimerFires
    \/ \E page \in 1..MaxPages : ChangePage(page)
    \/ \E item \in SortDescriptors : ChangeSort(item)
    \/ \E size \in PageSizeOptions : ChangePageSize(size)
    \/ \E r \in inflight, outcome \in FetchOutcomes : Settle(r, outcome)

SpecClient == InitClient /\ [][NextClient]_vars

\* some pending promise settles
SettleSome == \E r \in inflight, outcome \in FetchOutcomes : Settle(r, outcome)

\* the search page when the browser does run what is due: the effect of the
\* first render, every timer that has expired, and the callbacks of every
\* fetch that has completed; the user's actions are under no obligation
SpecClientFair ==
    /\ InitClient /\ [][NextClient]_vars
    /\ WF_vars(Mount)
    /\ WF_vars(TimerFires)
    /\ WF_vars(SettleSome)

(***************************************************************************)
(* Claims about the POST handler                                           *)
(***************************************************************************)
\* the view rows the WHERE clause of request p keeps
Matching(v, p) == {r \in v : Where(r, p)}

\* the filtered branch has just answered 200
FilteredAnswer ==
    /\ hpc = "query" /\ hpc' = "done"
    /\ payload'.status = 200

\* C1: a filtered request with page size L and 1-based page P is answered
\* with exactly min(L, total - L*(P-1)) rows, and total is the number of view
\* rows matching the filter predicates.  (Stated for the pages that exist,
\* L*(P-1) <= total, where the minimum is not negative.)
C1_FilteredPageSize ==
    [][FilteredAnswer =>
         /\ payload'.total = Cardinality(Matching(view, searchParams))
         /\ searchParams.limit * (searchParams.page - 1) <= payload'.total =>
              Len(payload'.data) =
                 Min(searchParams.limit,
                     payload'.total
                       - searchParams.limit * (searchParams.page - 1))
      ]_vars

\* C2: an unfiltered request is answered with the rows of the sorted view
\* starting at offset L*(P-1) (page 1 is the first L rows in sort order).
C2_UnfilteredWindow ==
    [][(hpc = "query" /\ hpc' = "count") =>
         searchResults' \in
            {LimitOffset(s, searchParams.limit,
                         searchParams.limit * (searchParams.page - 1)) :
               s \in OrderBy(view, searchParams.sortColumn,
                             SortDirection(searchParams))}
      ]_vars

\* C3: the total of every answer to an unfiltered request is the row count
\* of the view (as the count query reads it), whatever the page size and the
\* page number, and every such answer is made after that count.
C3_UnfilteredTotal ==
    /\ [][(hpc = "count" /\ hpc' = "done") =>
             /\ payload'.status = 200
             /\ payload'.total = Cardinality(view)]_vars
    /\ []((hpc = "done" /\ payload.status = 200
             /\ ~HasFilters(searchParams)) => queriesSent = 2)

\* an unfiltered request for a page beyond the last one is answered with no
\* rows and the view's row count
C3_Witness ==
    /\ hpc = "done" /\ payload.status = 200
    /\ ~HasFilters(searchParams)
    /\ searchParams.limit * (searchParams.page - 1) >= Cardinality(view)
    /\ payload.data = <<>>
    /\ payload.total = Cardinality(view)
    /\ payload.total = 2

\* C4: every SearchResult has data.length <= limit and total >= data.length.
C4_ResultInvariant ==
    (hpc = "done" /\ payload.status = 200) =>
        /\ Len(payload.data) <= searchParams.limit
        /\ payload.total >= Len(payload.data)

\* C5: a request whose sortColumn is not allow-listed is rejected with a
\* ValidationError and no query is sent to the datastore for it.
C5_SortColumnValidated ==
    (hpc # "idle" /\ searchParams.sortColumn \notin SortColumns) =>
        /\ queriesSent = 0
        /\ hpc = "done" =>
              (payload.status # 200 /\ payload.error = "ValidationError")

\* the case-insensitive contains predicates as C11 words them: each filter's
\* own value against that filter's column
OwnValuePredicates(row, p) ==
    /\ Truthy(p.cik) => ILike(row.investor_cik, p.cik)
    /\ Truthy(p.ticker) => ILike(row.stock_ticker, p.ticker)
    /\ Truthy(p.cusip) => ILike(row.stock_cusip, p.cusip)
    /\ Truthy(p.issuer) => ILike(row.stock_issuer, p.issuer)
    /\ Truthy(p.investor) =>
           ILike(row.investor_name \o <<" ">> \o row.investor_former_names,
                 p.investor)

\* the elements of a sequence
Range(s) == {s[i] : i \in 1..Len(s)}

\* C11: the row query of a request with filters among cik, ticker, cusip,
\* issuer and investor returns exactly the view rows that contain, case
\* folded, each non-empty filter's own value in that filter's column (for
\* investor: in the investor name joined with the former names).
C11_OwnValueContains ==
    [][(FilteredAnswer /\ ~Truthy(searchParams.document)) =>
         Range(searchResults') =
            {r \in view : OwnValuePredicates(r, searchParams)}
      ]_vars

\* text t begins lexeme lex
IsPrefix(t, lex) == Len(t) <= Len(lex) /\ SubSeq(lex, 1, Len(t)) = t

\* the text-search match as C12 words it: the phrase is cut into its tokens
\* (surrounding and repeated whitespace dropped), every token but the last
\* must be a lexeme of the document and the last must begin one
NormalizedPhraseMatch(document, phrase) ==
    LET tokens == Tokens(ToLower(phrase))
    IN /\ \A i \in 1..(Len(tokens) - 1) : tokens[i] \in document
       /\ Len(tokens) > 0 =>
              \E lex \in document : IsPrefix(tokens[Len(tokens)], lex)

\* C12: a request with a document phrase is answered from the rows whose
\* document matches every token of the normalized phrase, the last token as
\* a prefix; the raw phrase never reaches the text-search operator.  (Stated
\* for requests with a sortable column and no investor filter.)
C12_PhraseNormalized ==
    [][(/\ hpc = "query" /\ hpc' # "query"
        /\ Truthy(searchParams.document)
        /\ ~Truthy(searchParams.investor)
        /\ searchParams.sortColumn \in ViewColumns) =>
         /\ payload'.status = 200
         /\ Range(searchResults') =
               {r \in view :
                   /\ OwnValuePredicates(r, searchParams)
                   /\ NormalizedPhraseMatch(r.document,
                                            searchParams.document)}
      ]_vars

\* C13: the rows of every answer to a request with an offered sortColumn,
\* taken in order, are non-decreasing by that column when sortDirection is
\* ascending and non-increasing when it is descending, in the unfiltered
\* branch as in the filtered one (NULL being the datastore's largest key).
C13_AnswerSorted ==
    (/\ hpc = "done" /\ payload.status = 200
     /\ searchParams.sortColumn \in SortColumns) =>
        \A i \in 1..(Len(payload.data) - 1) :
            LET a == payload.data[i][searchParams.sortColumn]
                b == payload.data[i + 1][searchParams.sortColumn]
            IN IF searchParams.sortDirection = "ascending"
               THEN KeyLeq(a, b)
               ELSE KeyLeq(b, a)

\* a filtered request sorted descending by investor name is answered with a
\* slice of two rows whose names differ
C13_Witness ==
    /\ hpc = "done" /\ payload.status = 200
    /\ HasFilters(searchParams)
    /\ searchParams.sortColumn = "investor_name"
    /\ searchParams.sortDirection = "descending"
    /\ Len(payload.data) = 2
    /\ TextLess(payload.data[2].investor_name, payload.data[1].investor_name)

\* at least one of the six filters of request p is non-empty
SomeFilterSet(p) == \E f \in FilterNames : p[f] # NULL /\ p[f] # <<>>

\* C14: the pagination strategy follows from the filters alone.  With no
\* filter set the row query returns a LIMIT/OFFSET window of the sorted view
\* and a second query, the count, follows; with a filter set the one query
\* returns every matching row, the page is sliced from it in memory and the
\* total is its length.
C14_StrategyByHasFilters ==
    /\ [][(hpc = "query" /\ (hpc' = "count" \/ payload'.status = 200)) =>
             /\ queriesSent' = 1
             /\ IF SomeFilterSet(searchParams)
                THEN /\ hpc' = "done"
                     /\ Range(searchResults') = Matching(view, searchParams)
                     /\ Len(searchResults') =
                           Cardinality(Matching(view, searchParams))
                     /\ payload'.total = Len(searchResults')
                     /\ payload'.data =
                           Slice(searchResults', Offset(searchParams),
                                 Offset(searchParams) + searchParams.limit)
                ELSE /\ hpc' = "count"
                     /\ searchResults' \in
                           {LimitOffset(s, searchParams.limit,
                                        Offset(searchParams)) :
                              s \in OrderBy(view, searchParams.sortColumn,
                                            SortDirection(searchParams))}
          ]_vars
    /\ [][(hpc = "count" /\ hpc' = "done") =>
             /\ queriesSent' = 2
             /\ payload'.data = searchResults]_vars
    /\ []((hpc = "done" /\ payload.status = 200) =>
             queriesSent = IF SomeFilterSet(searchParams) THEN 1 ELSE 2)

\* a request whose only filter is the document phrase is answered after one
\* query with a one-row slice of three matching rows
C14_Witness ==
    /\ hpc = "done" /\ payload.status = 200
    /\ \A f \in FilterNames \ {"document"} : searchParams[f] = NULL
    /\ Truthy(searchParams.document)
    /\ queriesSent = 1
    /\ Len(searchResults) = 3
    /\ payload.total = 3
    /\ Len(payload.data) = 1

(***************************************************************************)
(* Claims about the search page and its services                           *)
(***************************************************************************)
\* C6: only the response of the most recently issued request determines the
\* displayed rows and total: a response processed after the response of a
\* later request leaves the display as that later response set it.  (Stated
\* for a superseded request: one that differs from the request issued last.)
C6_NoStaleOverwrite ==
    [][\A r \in inflight :
          (r \notin inflight' /\ r.id < shown /\ r.request # lastRequest) =>
              /\ investments' = investments
              /\ totalRecords' = totalRecords
      ]_vars

\* C7: the first request that carries a changed search text is issued with
\* page 1: currentPage is reset before that request.  (Steps in which the
\* user picks a page are left out.)
C7_NewTextStartsAtPageOne ==
    [][(issued > 0 /\ issued' = issued + 1
          /\ lastRequest'.document # lastRequest.document
          /\ currentPage' = currentPage) =>
         lastRequest'.page = 1
      ]_vars

\* C8: while a request is in flight the page shows the spinner.
C8_LoadingWhileInFlight ==
    (inflight # {} /\ ~crashed) => investmentsLoading

\* C9: the promise of investmentService.search never rejects.
C9_SearchNeverRejects == rejections = {}

\* C10: after a search resolved to {error: message} the page is in a
\* renderable fallback state: no rows, a numeric total, spinner off.
C10_ErrorFallbackRenders ==
    "error" \in DOMAIN results =>
        /\ ~crashed
        /\ totalRecords # UndefinedTotal
        /\ investments = <<>>
        /\ ~investmentsLoading

\* C15: a page change, a sort change, a page-size change and a debounced
\* text change each issue exactly one search request, and the processing of
\* a response, successful or failed, issues none.  (The text change is taken
\* with no other new search pending.)
C15_OneRequestPerChange ==
    [][/\ (\/ currentPage' # currentPage
           \/ sortObj' # sortObj
           \/ recordsPerPage' # recordsPerPage) => issued' = issued + 1
       /\ (timers' < timers /\ ~crashed /\ ~isNewSearch) =>
              issued' = issued + 1
       /\ (\E r \in inflight : r \notin inflight') => issued' = issued
      ]_vars

\* C16: the search text is debounced: however many text changes follow one
\* another within the delay, one delayed call of onSearchChange is pending,
\* the one started by the last change.
C16_OnePendingDebounce == timers <= 1

\* C17: on mount and after every change of currentPage, of the sort or of the
\* page size a search request is issued, and every request issued carries
\* the page, page size, sort column, sort direction and search text of the
\* state it is issued in; when the response to a request is processed, the
\* rows and the total on display become the data and the total of a response
\* to that request (undefined where the response has none).
C17_RequestMirrorsState ==
    /\ [][(\/ issued = 0
           \/ currentPage' # currentPage
           \/ sortObj' # sortObj
           \/ recordsPerPage' # recordsPerPage) => issued' = issued + 1]_vars
    /\ [][issued' = issued + 1 =>
             /\ lastRequest'.page = currentPage'
             /\ lastRequest'.limit = recordsPerPage'
             /\ lastRequest'.sortColumn = sortObj'.column
             /\ lastRequest'.sortDirection = sortObj'.direction
             /\ lastRequest'.document = searchTerm'
             /\ [id |-> issued', request |-> lastRequest'] \in inflight'
          ]_vars
    /\ [][\A r \in inflight :
             (r \notin inflight' /\ shown' = r.id) =>
                \E outcome \in FetchOutcomes \ {"unreachable"} :
                   \E response \in Responses(view, r.request, outcome) :
                     IF response.status = 200
                     THEN /\ totalRecords' = response.total
                          /\ investments' = response.data
                     ELSE /\ totalRecords' = UndefinedTotal
                          /\ investments' = UNDEFINED
          ]_vars

\* the user went to page 2: the second request carried page 2 and its
\* response, one row of five, is on display
C17_Witness ==
    /\ issued = 2 /\ shown = 2 /\ inflight = {}
    /\ currentPage = 2 /\ lastRequest.page = 2
    /\ lastRequest.limit = recordsPerPage
    /\ ~investmentsLoading /\ ~crashed
    /\ investments = results.data
    /\ Len(investments) = 1
    /\ totalRecords = 5

\* C18: a page-size change leaves currentPage at 1 and issues, in the same
\* update, the next request, which carries page 1 and the new page size.
C18_PageSizeResetsPage ==
    [][recordsPerPage' # recordsPerPage =>
         /\ currentPage' = 1
         /\ issued' = issued + 1
         /\ lastRequest'.page = 1
         /\ lastRequest'.limit = recordsPerPage'
      ]_vars

\* page 2 of the default page size is on display (its one row, of five) and
\* the user has picked another page size: the request in flight carries
\* page 1 and that size
C18_Witness ==
    /\ issued = 3 /\ shown = 2
    /\ sortObj = [column |-> "investor_name", direction |-> "ascending"]
    /\ totalRecords = 5 /\ investments = <<Row5>>
    /\ recordsPerPage # DefaultTableRows
    /\ currentPage = 1
    /\ \E r \in inflight :
          /\ r.id = 3
          /\ r.request.page = 1
          /\ r.request.limit = recordsPerPage

\* C19: a sort change replaces the sort descriptor only: currentPage, the
\* page size and the search text stay as they are, and the request it
\* issues carries the new sort and the page number from before the change.
C19_SortKeepsPage ==
    [][sortObj' # sortObj =>
         /\ currentPage' = currentPage
         /\ recordsPerPage' = recordsPerPage
         /\ searchTerm' = searchTerm
         /\ issued' = issued + 1
         /\ lastRequest'.page = currentPage
         /\ lastRequest'.sortColumn = sortObj'.column
         /\ lastRequest'.sortDirection = sortObj'.direction
      ]_vars

\* on page 2 the user has changed the sort: the request in flight carries
\* page 2 and the new sort
C19_Witness ==
    /\ issued = 3 /\ shown = 2
    /\ totalRecords = 5 /\ investments = <<Row5>>
    /\ recordsPerPage = DefaultTableRows
    /\ sortObj # [column |-> "investor_name", direction |-> "ascending"]
    /\ currentPage = 2
    /\ \E r \in inflight :
          /\ r.id = 3
          /\ r.request.page = 2
          /\ r.request.sortColumn = sortObj.column
          /\ r.request.sortDirection = sortObj.direction

\* pages is the least number of pages of perPage rows that hold total rows
IsCeiling(pages, total, perPage) ==
    /\ pages >= 0
    /\ pages * perPage >= total
    /\ pages > 0 => (pages - 1) * perPage < total

\* C20: totalPages is ceil(totalRecords / page size), 0 for a total of 0,
\* for every total up to MaxTotal and every page size offered, and in every
\* state of the page it is that value for the totalRecords and the page size
\* of that state, so also right after either of them changed.
C20_TotalPagesIsCeiling ==
    /\ \A total \in 0..MaxTotal, perPage \in PageSizeOptions :
          /\ IsCeiling(TotalPagesOf(total, perPage), total, perPage)
          /\ total = 0 => TotalPagesOf(total, perPage) = 0
    /\ totalRecords >= 0 =>
          /\ IsCeiling(TotalPages, totalRecords, recordsPerPage)
          /\ totalRecords = 0 => TotalPages = 0

\* five rows were counted at the default page size and the user has picked
\* three rows per page: two pages, before the next response arrives
C20_Witness ==
    /\ totalRecords = 5
    /\ recordsPerPage = 3
    /\ recordsPerPage # DefaultTableRows
    /\ shown < issued
    /\ TotalPages = 2

(***************************************************************************)
(* Claims about the handler and the page together                          *)
(***************************************************************************)
\* the rows the handler answers with when page k of request p is asked and
\* the row query sorts the matching rows as s
PageRows(p, s, k) ==
    LET q == [p EXCEPT !.page = k]
    IN IF HasFilters(q) THEN FilteredPayload(q, s).data
       ELSE LimitOffset(s, q.limit, Offset(q))

\* pages 1..k put one after another
RECURSIVE PagesUpTo(_, _, _)
PagesUpTo(p, s, k) ==
    IF k = 0 THEN <<>> ELSE PagesUpTo(p, s, k - 1) \o PageRows(p, s, k)

\* C21: for the view, the filters and the sort of the request in hand, the
\* pages 1..ceil(N/L) the pagination control offers, each asked from the
\* handler, are all non-empty and, put one after another in page order, are
\* the whole sorted result: every row is on exactly one page.
C21_PagesCoverResult ==
    (hpc = "query" /\ ~QueryFails(searchParams)) =>
        \A s \in OrderBy(Matching(view, searchParams),
                         searchParams.sortColumn,
                         SortDirection(searchParams)) :
            LET pages == TotalPagesOf(Len(s), searchParams.limit)
            IN /\ \A k \in 1..pages : PageRows(searchParams, s, k) # <<>>
               /\ PagesUpTo(searchParams, s, pages) = s

\* C22: if every issued request completes and every timer expires, so that
\* from some point on nothing is pending, then from some point on the page
\* does not show the spinner: it is never stuck loading.
C22_LoadingEnds ==
    <>[](inflight = {} /\ timers = 0) => <>[](~investmentsLoading)

\* C23: whenever the page is not loading and totalRecords > 0, the current
\* page is one of the pages there are: 1 <= currentPage <= totalPages.
C23_PageInRange ==
    (~investmentsLoading /\ totalRecords > 0) =>
        (1 <= currentPage /\ currentPage <= TotalPages)

\* C24: whatever sortDirection the request in hand carries, the direction
\* keyword of its ORDER BY is ASC or DESC: ASC for "ascending", DESC for
\* every other value, missing and malformed ones included, so that no text
\* of sortDirection is in the statement.
C24_DirectionKeyword ==
    hpc # "idle" =>
        /\ SortDirection(searchParams) \in {"ASC", "DESC"}
        /\ SortDirection(searchParams) = "ASC" <=>
               searchParams.sortDirection = "ascending"

\* a request whose sortDirection is SQL text is answered with rows in
\* descending order of the investor name
C24_Witness ==
    /\ hpc = "done" /\ payload.status = 200
    /\ searchParams.sortDirection = "ASC; DROP TABLE x"
    /\ searchParams.sortColumn = "investor_name"
    /\ Len(payload.data) = 2
    /\ TextLess(payload.data[2].investor_name, payload.data[1].investor_name)

\* C25: on one sorted row sequence, with one limit and page, the in-memory
\* slice(offset, offset + limit) of the filtered branch is the window LIMIT
\* limit OFFSET offset of the unfiltered branch: the same rows in the same
\* order, also where the window runs past the end of the sequence.  Checked
\* on every order of the rows the request in hand matches and on the rows
\* every filtered answer was sliced from.
C25_SliceIsLimitOffset ==
    /\ (hpc = "query" /\ ~QueryFails(searchParams)) =>
          \A s \in OrderBy(Matching(view, searchParams),
                           searchParams.sortColumn,
                           SortDirection(searchParams)) :
              Slice(s, Offset(searchParams),
                    Offset(searchParams) + searchParams.limit) =
                 LimitOffset(s, searchParams.limit, Offset(searchParams))
    /\ (hpc = "done" /\ payload.status = 200 /\ HasFilters(searchParams)) =>
          payload.data =
             LimitOffset(searchResults, searchParams.limit,
                         Offset(searchParams))

\* a filtered answer whose window starts inside the three matching rows and
\* ends past them: one row
C25_Witness ==
    /\ hpc = "done" /\ payload.status = 200
    /\ HasFilters(searchParams)
    /\ Len(searchResults) = 3
    /\ searchParams.limit = 2 /\ searchParams.page = 1
    /\ payload.data = <<searchResults[3]>>

=============================================================================
